---- MODULE Spec2Model ----
(***************************************************************************)
(* tasks.py: the DeclarativeUI development task runner.                    *)
(*                                                                         *)
(* The process is single threaded.  pc is the position of its one thread:  *)
(*   "idle"    main has not been entered                                   *)
(*   "call"    main is at tasks[task]() and the action is being entered    *)
(*   "run"     run_command waits in subprocess.run for the child process   *)
(*   "resume"  run_command has returned to the action that called it       *)
(*   "ret"     the action has returned to main                             *)
(*   "done"    main has returned                                           *)
(*   "fault"   an exception left main unhandled                            *)
(* The file system is seen through the one relative path the code uses,    *)
(* "build": cwd is the number of "build" components below the directory    *)
(* the process was started in, and buildDepth is the number of nested      *)
(* build directories that exist below that directory.                      *)
(***************************************************************************)
EXTENDS Integers, Sequences, FiniteSets, TLC

VARIABLES
    argv,        \* sys.argv[1:] of the running main
    pc,          \* position of the thread
    callee,      \* the function main looked up in tasks
    cwd,         \* os.getcwd(), as a depth of "build" components
    buildDepth,  \* nested build directories that exist
    printed,     \* lines written to standard output since main was entered
    calls,       \* the run_command calls since main was entered
    invoked,     \* the functions main called through tasks[task]()
    result,      \* what the action returned to main
    exitStatus,  \* exit status of the process once main is left
    runs,        \* number of times main was entered
    cwd0,        \* cwd when main was entered
    buildDepth0  \* buildDepth when main was entered

vars == <<argv, pc, callee, cwd, buildDepth, printed, calls, invoked, result,
          exitStatus, runs, cwd0, buildDepth0>>

----------------------------------------------------------------------------
(* Bounds *)

MaxRuns == 3        \* entries of main that are explored
MaxDepth == 3       \* deepest nesting of build directories
MaxReturnCode == 2  \* exit statuses of a child process are 0..MaxReturnCode

(* Texts a child process writes; "" is an empty stream *)
StdoutTexts == {"", "OK"}
StderrTexts == {"", "boom"}

(* Argument lists given to main *)
TaskNames == {"setup-dev", "format", "lint", "check", "build-debug",
              "build-release", "test", "clean", "update-hooks", "help"}
OtherNames == {"deploy"}
ArgLists == {<<>>} \cup {<<n>> : n \in TaskNames \cup OtherNames}
                   \cup {<<"clean", "test">>, <<"deploy", "help">>}

----------------------------------------------------------------------------
(* Printed lines: a line is the sequence of the pieces print was given *)

ProgressLine(description) == <<"* ", description, "...">>

ErrorLine(cmd, returncode) ==
    <<"X Error: ", "Command '", cmd, "' returned non-zero exit status ",
      ToString(returncode), ".">>

HelpLines ==
    << <<"Available tasks:">>,
       <<"   setup-dev     - Set up development environment">>,
       <<"   format        - Format all code">>,
       <<"   lint          - Run C++ linting">>,
       <<"   check         - Run all code quality checks">>,
       <<"   build-debug   - Build project in debug mode">>,
       <<"   build-release - Build project in release mode">>,
       <<"   test          - Run all tests">>,
       <<"   clean         - Clean build artifacts">>,
       <<"   update-hooks  - Update pre-commit hooks">>,
       <<"   help          - Show this help">> >>

(* A slip in line 158: the message does not name the argument *)
UnknownTaskLine_NoName(task) == <<"X Unknown task">>

UnknownTaskLine(task) == <<"X Unknown task: ", task>>

SetupBanner == << <<"Setting up DeclarativeUI development environment...">> >>

SetupCompleteLines ==
    << <<"Development environment setup complete!">>,
       <<"Next steps:">>,
       <<"   1. mkdir build && cd build">>,
       <<"   2. cmake .. -DCMAKE_BUILD_TYPE=Debug -DBUILD_EXAMPLES=ON -DBUILD_TESTS=ON">>,
       <<"   3. cmake --build .">>,
       <<"   4. ctest --output-on-failure">> >>

NoBuildLine ==
    <<"X Build directory not found. Run 'python tasks.py build-debug' first.">>

CleanedLine == <<"Cleaned build directory">>

----------------------------------------------------------------------------
(* The registry of main *)

tasks ==
    [n \in TaskNames |->
        CASE n = "setup-dev"     -> "setup_dev"
          [] n = "format"        -> "format_code"
          [] n = "lint"          -> "lint_code"
          [] n = "check"         -> "check_code"
          [] n = "build-debug"   -> "build_debug"
          [] n = "build-release" -> "build_release"
          [] n = "test"          -> "run_tests"
          [] n = "clean"         -> "clean"
          [] n = "update-hooks"  -> "update_hooks"
          [] n = "help"          -> "help"]

(* A slip in lines 144-155: "format" is registered under lint_code *)
Lookup_Swapped(task) == IF task = "format" THEN "lint_code" ELSE tasks[task]

Lookup(task) == tasks[task]

----------------------------------------------------------------------------
(* The file system, through the path "build" *)

(* A slip in line 99: the test for the build directory is dropped *)
BuildExists_Always == TRUE

(* Path("build").exists() *)
BuildExists == buildDepth > cwd

(* os.makedirs("build", exist_ok=True): the depth afterwards *)
makedirs == IF buildDepth > cwd THEN buildDepth ELSE cwd + 1

(* A slip in lines 72, 86, 103: the working directory is put back *)
chdir_Restored == cwd

(* os.chdir("build"): the working directory afterwards *)
chdir == cwd + 1

(* A slip in line 112: only what is below build is removed *)
rmtree_KeepsTop == IF buildDepth > cwd THEN cwd + 1 ELSE buildDepth

(* shutil.rmtree("build"): the depth afterwards; the whole tree goes *)
rmtree == cwd

----------------------------------------------------------------------------
Init ==
    /\ argv = <<>>
    /\ pc = "idle"
    /\ callee = "none"
    /\ cwd = 0
    /\ buildDepth \in 0..1
    /\ printed = <<>>
    /\ calls = <<>>
    /\ invoked = <<>>
    /\ result = "pending"
    /\ exitStatus = -1
    /\ runs = 0
    /\ cwd0 = 0
    /\ buildDepth0 = buildDepth

(* main, lines 137-162, up to the call of the action *)
Main(args) ==
    /\ pc \in {"idle", "done"}
    /\ runs < MaxRuns
    /\ runs' = runs + 1
    /\ argv' = args
    /\ cwd0' = cwd
    /\ buildDepth0' = buildDepth
    /\ calls' = <<>>
    /\ result' = "pending"
    /\ UNCHANGED <<cwd, buildDepth>>
    /\ IF Len(args) # 1
       THEN /\ printed' = HelpLines
            /\ invoked' = <<>>
            /\ callee' = "none"
            /\ pc' = "done"
            /\ exitStatus' = 0
       ELSE IF args[1] \notin DOMAIN tasks
       THEN /\ printed' = <<UnknownTaskLine(args[1])>> \o HelpLines
            /\ invoked' = <<>>
            /\ callee' = "none"
            /\ pc' = "done"
            /\ exitStatus' = 0
       ELSE /\ printed' = <<>>
            /\ callee' = Lookup(args[1])
            /\ invoked' = <<Lookup(args[1])>>
            /\ pc' = "call"
            /\ exitStatus' = -1

----------------------------------------------------------------------------
(* run_command *)

(* run_command, lines 12-16: print the progress line and start the child *)
Start(cmd, description, before) ==
    /\ calls' = Append(calls, [cmd |-> cmd, description |-> description,
                               status |-> "running", returncode |-> -1,
                               stdout |-> "", stderr |-> "", ret |-> "pending",
                               out |-> <<ProgressLine(description)>>])
    /\ printed' = printed \o before \o <<ProgressLine(description)>>
    /\ pc' = "run"

(* A slip in lines 17-18: the success path also prints the captured stderr *)
RunCommandOutput_StderrOnSuccess(cmd, returncode, so, se) ==
    IF returncode = 0
    THEN (IF so # "" THEN << <<so>> >> ELSE <<>>)
         \o (IF se # "" THEN << <<se>> >> ELSE <<>>)
    ELSE <<ErrorLine(cmd, returncode)>>
         \o (IF so # "" THEN << <<"Output: ", so>> >> ELSE <<>>)
         \o (IF se # "" THEN << <<"Error: ", se>> >> ELSE <<>>)

(* A slip in lines 21-25: the failure path prints the captured stdout in the
   summary as well *)
RunCommandOutput_StdoutTwice(cmd, returncode, so, se) ==
    IF returncode = 0
    THEN IF so # "" THEN << <<so>> >> ELSE <<>>
    ELSE << <<"X Error: ", so>> >>
         \o (IF so # "" THEN << <<"Output: ", so>> >> ELSE <<>>)
         \o (IF se # "" THEN << <<"Error: ", se>> >> ELSE <<>>)

(* run_command, lines 17-18 and 21-25: what is printed once the child exits *)
RunCommandOutput(cmd, returncode, so, se) ==
    IF returncode = 0
    THEN IF so # "" THEN << <<so>> >> ELSE <<>>
    ELSE <<ErrorLine(cmd, returncode)>>
         \o (IF so # "" THEN << <<"Output: ", so>> >> ELSE <<>>)
         \o (IF se # "" THEN << <<"Error: ", se>> >> ELSE <<>>)

(* run_command, lines 19 and 26: the value returned *)
RunCommandValue(returncode) == IF returncode = 0 THEN "True" ELSE "False"

(* run_command, lines 14-26: the child exits with a status and its captured
   streams decode; check=True turns a non-zero status into
   CalledProcessError, which line 20 catches *)
RunCommandReturn ==
    /\ pc = "run"
    /\ \E returncode \in 0..MaxReturnCode, so \in StdoutTexts, se \in StderrTexts :
         LET n == Len(calls)
             c == calls[n]
             lines == RunCommandOutput(c.cmd, returncode, so, se)
         IN /\ calls' = [calls EXCEPT ![n] =
                            [c EXCEPT !.status = "returned",
                                      !.returncode = returncode,
                                      !.stdout = so,
                                      !.stderr = se,
                                      !.ret = RunCommandValue(returncode),
                                      !.out = c.out \o lines]]
            /\ printed' = printed \o lines
    /\ pc' = "resume"
    /\ UNCHANGED <<argv, callee, cwd, buildDepth, invoked, result, exitStatus,
                   runs, cwd0, buildDepth0>>

(* run_command, lines 14-16 and 20: subprocess.run raises something other
   than CalledProcessError (text=True decodes the captured bytes strictly, so
   a child that writes bytes that are not valid text raises
   UnicodeDecodeError).  Line 20 does not catch it, no caller has a handler,
   and the exception leaves main *)
RunCommandRaise ==
    /\ pc = "run"
    /\ calls' = [calls EXCEPT ![Len(calls)].status = "raised"]
    /\ pc' = "fault"
    /\ exitStatus' = 1
    /\ UNCHANGED <<argv, callee, cwd, buildDepth, printed, invoked, result,
                   runs, cwd0, buildDepth0>>

(* The value run_command returned to the action *)
LastRet == calls[Len(calls)].ret

(* return v, in an action *)
Return(v) ==
    /\ result' = v
    /\ pc' = "ret"

----------------------------------------------------------------------------
(* The actions *)

Enter(f) == pc = "call" /\ callee = f
Back(f) == pc = "resume" /\ callee = f

(* setup_dev, lines 31-36 *)
SetupDev ==
    /\ Enter("setup_dev")
    /\ Start("pip install -r requirements.txt", "Installing Python dependencies",
             SetupBanner)
    /\ UNCHANGED <<argv, callee, cwd, buildDepth, invoked, result, exitStatus,
                   runs, cwd0, buildDepth0>>

(* A slip in lines 34-37: a failed dependency install does not stop setup_dev *)
SetupDevResume_NoHalt ==
    /\ Back("setup_dev")
    /\ IF Len(calls) = 1
       THEN /\ Start("pre-commit install", "Installing pre-commit hooks", <<>>)
            /\ UNCHANGED result
       ELSE IF LastRet = "False"
       THEN /\ Return("False")
            /\ UNCHANGED <<calls, printed>>
       ELSE /\ printed' = printed \o SetupCompleteLines
            /\ Return("True")
            /\ UNCHANGED calls
    /\ UNCHANGED <<argv, callee, cwd, buildDepth, invoked, exitStatus, runs,
                   cwd0, buildDepth0>>

(* setup_dev, lines 34-51, after a run_command call returned *)
SetupDevResume ==
    /\ Back("setup_dev")
    /\ IF LastRet = "False"
       THEN /\ Return("False")
            /\ UNCHANGED <<calls, printed>>
       ELSE IF Len(calls) = 1
       THEN /\ Start("pre-commit install", "Installing pre-commit hooks", <<>>)
            /\ UNCHANGED result
       ELSE /\ printed' = printed \o SetupCompleteLines
            /\ Return("True")
            /\ UNCHANGED calls
    /\ UNCHANGED <<argv, callee, cwd, buildDepth, invoked, exitStatus, runs,
                   cwd0, buildDepth0>>

(* format_code, line 56 *)
FormatCode ==
    /\ Enter("format_code")
    /\ Start("pre-commit run --all-files", "Formatting all code", <<>>)
    /\ UNCHANGED <<argv, callee, cwd, buildDepth, invoked, result, exitStatus,
                   runs, cwd0, buildDepth0>>

(* lint_code, line 61 *)
LintCode ==
    /\ Enter("lint_code")
    /\ Start("pre-commit run cppcheck --all-files", "Running C++ linting", <<>>)
    /\ UNCHANGED <<argv, callee, cwd, buildDepth, invoked, result, exitStatus,
                   runs, cwd0, buildDepth0>>

(* check_code, line 66 *)
CheckCode ==
    /\ Enter("check_code")
    /\ Start("pre-commit run --all-files", "Running all code quality checks", <<>>)
    /\ UNCHANGED <<argv, callee, cwd, buildDepth, invoked, result, exitStatus,
                   runs, cwd0, buildDepth0>>

(* update_hooks, line 119 *)
UpdateHooks ==
    /\ Enter("update_hooks")
    /\ Start("pre-commit autoupdate", "Updating pre-commit hooks", <<>>)
    /\ UNCHANGED <<argv, callee, cwd, buildDepth, invoked, result, exitStatus,
                   runs, cwd0, buildDepth0>>

(* format_code, lint_code, check_code, run_tests, update_hooks:
   return run_command(...) hands the value on *)
ReturnRunCommand ==
    /\ pc = "resume"
    /\ callee \in {"format_code", "lint_code", "check_code", "run_tests",
                   "update_hooks"}
    /\ Return(LastRet)
    /\ UNCHANGED <<argv, callee, cwd, buildDepth, printed, calls, invoked,
                   exitStatus, runs, cwd0, buildDepth0>>

(* build_debug, lines 71-77 *)
BuildDebug ==
    /\ Enter("build_debug")
    /\ cwd < MaxDepth
    /\ buildDepth' = makedirs
    /\ cwd' = chdir
    /\ Start("cmake .. -DCMAKE_BUILD_TYPE=Debug -DBUILD_EXAMPLES=ON -DBUILD_TESTS=ON",
             "Configuring CMake", <<>>)
    /\ UNCHANGED <<argv, callee, invoked, result, exitStatus, runs, cwd0,
                   buildDepth0>>

(* build_debug, lines 74-80, after a run_command call returned *)
BuildDebugResume ==
    /\ Back("build_debug")
    /\ IF Len(calls) = 1
       THEN IF LastRet = "False"
            THEN /\ Return("False")
                 /\ UNCHANGED <<calls, printed>>
            ELSE /\ Start("cmake --build .", "Building project", <<>>)
                 /\ UNCHANGED result
       ELSE /\ Return(LastRet)
            /\ UNCHANGED <<calls, printed>>
    /\ UNCHANGED <<argv, callee, cwd, buildDepth, invoked, exitStatus, runs,
                   cwd0, buildDepth0>>

(* build_release, lines 85-91 *)
BuildRelease ==
    /\ Enter("build_release")
    /\ cwd < MaxDepth
    /\ buildDepth' = makedirs
    /\ cwd' = chdir
    /\ Start("cmake .. -DCMAKE_BUILD_TYPE=Release -DBUILD_EXAMPLES=ON -DBUILD_TESTS=ON",
             "Configuring CMake", <<>>)
    /\ UNCHANGED <<argv, callee, invoked, result, exitStatus, runs, cwd0,
                   buildDepth0>>

(* build_release, lines 88-94, after a run_command call returned *)
BuildReleaseResume ==
    /\ Back("build_release")
    /\ IF Len(calls) = 1
       THEN IF LastRet = "False"
            THEN /\ Return("False")
                 /\ UNCHANGED <<calls, printed>>
            ELSE /\ Start("cmake --build .", "Building project", <<>>)
                 /\ UNCHANGED result
       ELSE /\ Return(LastRet)
            /\ UNCHANGED <<calls, printed>>
    /\ UNCHANGED <<argv, callee, cwd, buildDepth, invoked, exitStatus, runs,
                   cwd0, buildDepth0>>

(* run_tests, lines 99-104 *)
RunTests ==
    /\ Enter("run_tests")
    /\ IF ~BuildExists
       THEN /\ printed' = Append(printed, NoBuildLine)
            /\ Return("False")
            /\ UNCHANGED <<cwd, calls>>
       ELSE /\ cwd' = chdir
            /\ Start("ctest --output-on-failure", "Running tests", <<>>)
            /\ UNCHANGED result
    /\ UNCHANGED <<argv, callee, buildDepth, invoked, exitStatus, runs, cwd0,
                   buildDepth0>>

(* clean, lines 111-114 *)
Clean ==
    /\ Enter("clean")
    /\ IF BuildExists
       THEN /\ buildDepth' = rmtree
            /\ printed' = Append(printed, CleanedLine)
       ELSE UNCHANGED <<buildDepth, printed>>
    /\ Return("True")
    /\ UNCHANGED <<argv, callee, cwd, calls, invoked, exitStatus, runs, cwd0,
                   buildDepth0>>

(* help, lines 124-134, called through the registry: no return statement *)
Help ==
    /\ Enter("help")
    /\ printed' = printed \o HelpLines
    /\ Return("None")
    /\ UNCHANGED <<argv, callee, cwd, buildDepth, calls, invoked, exitStatus,
                   runs, cwd0, buildDepth0>>

(* main, line 162: the value of tasks[task]() is dropped and main returns *)
MainReturn ==
    /\ pc = "ret"
    /\ pc' = "done"
    /\ exitStatus' = 0
    /\ UNCHANGED <<argv, callee, cwd, buildDepth, printed, calls, invoked,
                   result, runs, cwd0, buildDepth0>>

(* lines 165-166: the script is run again, as a new process started in the
   project directory; the file system is what the last process left *)
Restart ==
    /\ pc \in {"done", "fault"}
    /\ runs < MaxRuns
    /\ pc' = "idle"
    /\ argv' = <<>>
    /\ callee' = "none"
    /\ cwd' = 0
    /\ printed' = <<>>
    /\ calls' = <<>>
    /\ invoked' = <<>>
    /\ result' = "pending"
    /\ exitStatus' = -1
    /\ cwd0' = 0
    /\ buildDepth0' = buildDepth
    /\ UNCHANGED <<buildDepth, runs>>

Next ==
    \/ \E args \in ArgLists : Main(args)
    \/ SetupDev \/ SetupDevResume
    \/ FormatCode \/ LintCode \/ CheckCode \/ UpdateHooks \/ ReturnRunCommand
    \/ BuildDebug \/ BuildDebugResume
    \/ BuildRelease \/ BuildReleaseResume
    \/ RunTests \/ Clean \/ Help
    \/ RunCommandReturn \/ RunCommandRaise
    \/ MainReturn
    \/ Restart

Spec == Init /\ [][Next]_vars

TypeOK ==
    /\ pc \in {"idle", "call", "run", "resume", "ret", "done", "fault"}
    /\ cwd \in 0..MaxDepth
    /\ buildDepth \in 0..MaxDepth
    /\ cwd <= buildDepth
    /\ result \in {"pending", "True", "False", "None"}
    /\ runs \in 0..MaxRuns

----------------------------------------------------------------------------
(* What the properties below read *)

(* main was given exactly one argument and it is a registered task name *)
Registered == Len(argv) = 1 /\ argv[1] \in TaskNames

(* The action has been entered, and possibly left *)
Entered == Registered /\ pc \in {"run", "resume", "ret", "done", "fault"}

(* The action has returned a value to main *)
Returned == Registered /\ pc \in {"ret", "done"}

(* No build directory was in the working directory when main was entered *)
NoBuild0 == buildDepth0 <= cwd0

(* Number of pieces of the lines equal to text *)
Occurrences(lines, text) ==
    Cardinality({ij \in {<<i, j>> : i \in DOMAIN lines, j \in 1..6} :
                    /\ ij[2] \in DOMAIN lines[ij[1]]
                    /\ lines[ij[1]][ij[2]] = text})

(* The external commands of the actions with two steps *)
FirstCommand(task) ==
    CASE task = "setup-dev" -> "pip install -r requirements.txt"
      [] task = "build-debug" ->
           "cmake .. -DCMAKE_BUILD_TYPE=Debug -DBUILD_EXAMPLES=ON -DBUILD_TESTS=ON"
      [] task = "build-release" ->
           "cmake .. -DCMAKE_BUILD_TYPE=Release -DBUILD_EXAMPLES=ON -DBUILD_TESTS=ON"

SecondCommand(task) ==
    CASE task = "setup-dev" -> "pre-commit install"
      [] task = "build-debug" -> "cmake --build ."
      [] task = "build-release" -> "cmake --build ."

(* The function each task name stands for *)
MappedAction(task) ==
    CASE task = "setup-dev"     -> "setup_dev"
      [] task = "format"        -> "format_code"
      [] task = "lint"          -> "lint_code"
      [] task = "check"         -> "check_code"
      [] task = "build-debug"   -> "build_debug"
      [] task = "build-release" -> "build_release"
      [] task = "test"          -> "run_tests"
      [] task = "clean"         -> "clean"
      [] task = "update-hooks"  -> "update_hooks"
      [] task = "help"          -> "help"

----------------------------------------------------------------------------
(* C1: run_command never lets a fault reach its caller: every call returns,
   with True when the command exited with status zero and False when it
   exited with a non-zero status. *)
C1_RunCommandAlwaysReturns ==
    \A i \in DOMAIN calls :
        /\ calls[i].status # "raised"
        /\ calls[i].status = "returned" =>
              calls[i].ret = (IF calls[i].returncode = 0 THEN "True" ELSE "False")

(* C2: setup-dev, build-debug and build-release run their commands in
   sequence and stop at the first failure: the second command is started only
   once the first has returned success, and when the first fails the second
   is never started and the action returns failure. *)
C2_SequentialShortCircuit ==
    (Entered /\ argv[1] \in {"setup-dev", "build-debug", "build-release"}) =>
        /\ Len(calls) \in 1..2
        /\ calls[1].cmd = FirstCommand(argv[1])
        /\ Len(calls) = 2 =>
              /\ calls[1].status = "returned"
              /\ calls[1].ret = "True"
              /\ calls[2].cmd = SecondCommand(argv[1])
        /\ calls[1].ret = "False" =>
              /\ Len(calls) = 1
              /\ pc \in {"resume", "ret", "done"}
              /\ pc \in {"ret", "done"} => result = "False"
        /\ calls[1].status = "raised" => Len(calls) = 1

C2_Witness ==
    /\ argv = <<"setup-dev">>
    /\ pc = "ret"
    /\ Len(calls) = 1
    /\ calls[1].ret = "False"
    /\ result = "False"

(* C3: for an argument list that is not exactly one registered task name,
   main prints the help listing, after an unknown-task line naming the
   argument when there is exactly one, calls no action, runs no external
   command, leaves the build directory and the working directory as they
   were, and returns without raising. *)
C3_NotATaskPrintsHelp ==
    (~Registered /\ pc # "idle") =>
        /\ pc = "done"
        /\ exitStatus = 0
        /\ invoked = <<>>
        /\ calls = <<>>
        /\ cwd = cwd0
        /\ buildDepth = buildDepth0
        /\ printed = (IF Len(argv) = 1
                      THEN << <<"X Unknown task: ", argv[1]>> >>
                      ELSE <<>>) \o HelpLines

C3_Witness ==
    /\ argv = <<"deploy">>
    /\ pc = "done"
    /\ buildDepth0 > cwd0
    /\ printed[1] = <<"X Unknown task: ", "deploy">>

(* C4: without a build directory in the working directory, test prints the
   guidance, returns failure, never calls run_command and leaves the working
   directory alone; with one it changes into it, runs the test runner and
   returns what run_command returned for it. *)
C4_TestNeedsBuildDirectory ==
    (Entered /\ argv[1] = "test") =>
        IF NoBuild0
        THEN /\ pc \in {"ret", "done"}
             /\ result = "False"
             /\ calls = <<>>
             /\ cwd = cwd0
             /\ printed = <<NoBuildLine>>
        ELSE /\ cwd = cwd0 + 1
             /\ Len(calls) = 1
             /\ calls[1].cmd = "ctest --output-on-failure"
             /\ pc \in {"ret", "done"} =>
                   /\ calls[1].status = "returned"
                   /\ result = calls[1].ret

C4_Witness ==
    /\ argv = <<"test">>
    /\ pc = "ret"
    /\ NoBuild0
    /\ result = "False"

(* C5: clean always returns success and leaves no build directory in the
   working directory: one that existed is gone with everything below it, and
   when there was none clean changes nothing and prints nothing. *)
C5_CleanLeavesNoBuild ==
    (Entered /\ argv[1] = "clean") =>
        /\ pc \in {"ret", "done"}
        /\ result = "True"
        /\ buildDepth <= cwd
        /\ cwd = cwd0
        /\ calls = <<>>
        /\ NoBuild0 => (buildDepth = buildDepth0 /\ printed = <<>>)

C5_Witness ==
    /\ argv = <<"clean">>
    /\ pc = "ret"
    /\ buildDepth0 > cwd0 + 1
    /\ buildDepth = cwd
    /\ result = "True"

(* C6: a run_command call prints each captured stream once: after a non-zero
   exit with stdout and stderr both non-empty it returns failure and its
   output holds the stdout text once and the stderr text once; after a zero
   exit with stdout text it returns success and its output holds that text
   once. *)
C6_StreamsPrintedOnce ==
    \A i \in DOMAIN calls :
        LET c == calls[i] IN
        c.status = "returned" =>
            /\ (c.returncode # 0 /\ c.stdout # "" /\ c.stderr # "") =>
                  /\ c.ret = "False"
                  /\ Occurrences(c.out, c.stdout) = 1
                  /\ Occurrences(c.out, c.stderr) = 1
            /\ (c.returncode = 0 /\ c.stdout # "") =>
                  /\ c.ret = "True"
                  /\ Occurrences(c.out, c.stdout) = 1

C6_Witness ==
    /\ pc = "resume"
    /\ calls[Len(calls)].returncode # 0
    /\ calls[Len(calls)].stdout = "OK"
    /\ calls[Len(calls)].stderr = "boom"
    /\ calls[Len(calls)].ret = "False"

(* C7: given one registered task name, main calls the function registered
   under that name, once, and drops what it returns: main returns normally
   with the same exit status whether the action returned success or
   failure. *)
C7_DispatchOnceResultDropped ==
    (Registered /\ pc # "idle") =>
        /\ invoked = <<MappedAction(argv[1])>>
        /\ callee = MappedAction(argv[1])
        /\ pc = "done" => (exitStatus = 0 /\ result \in {"True", "False", "None"})
        /\ pc = "fault" => result = "pending"

C7_Witness ==
    /\ argv = <<"format">>
    /\ pc = "done"
    /\ result = "False"
    /\ exitStatus = 0

(* C8: every registered action returns a success/failure boolean to main on
   every path through it. *)
C8_ActionsReturnBoolean ==
    (Registered /\ pc # "idle") =>
        /\ pc # "fault"
        /\ pc \in {"ret", "done"} => result \in {"True", "False"}

(* C9: build-debug and build-release always, and test when the build
   directory existed, leave the process in the build directory, which they
   created or found relative to the working directory they were entered in,
   and nothing puts it back; every other action leaves the working directory
   as it was. *)
C9_WorkingDirectoryLeak ==
    Entered =>
        IF argv[1] \in {"build-debug", "build-release"}
        THEN cwd = cwd0 + 1 /\ buildDepth >= cwd0 + 1
        ELSE IF argv[1] = "test" /\ ~NoBuild0
        THEN cwd = cwd0 + 1
        ELSE cwd = cwd0

C9_Witness ==
    /\ argv = <<"build-debug">>
    /\ pc = "done"
    /\ result = "False"
    /\ cwd0 = 1
    /\ cwd = 2
    /\ buildDepth = 2

(* C10: after a zero exit run_command prints nothing of the captured stderr;
   the stderr line is printed only after a non-zero exit. *)
C10_StderrOnlyOnFailure ==
    \A i \in DOMAIN calls :
        LET c == calls[i] IN
        (c.status = "returned" /\ c.returncode = 0) =>
            /\ c.stderr # "" => Occurrences(c.out, c.stderr) = 0
            /\ c.out = <<ProgressLine(c.description)>>
                         \o (IF c.stdout # "" THEN << <<c.stdout>> >> ELSE <<>>)

C10_Witness ==
    /\ pc = "resume"
    /\ calls[Len(calls)].returncode = 0
    /\ calls[Len(calls)].stderr = "boom"
    /\ calls[Len(calls)].ret = "True"

====
